---- MODULE Spec2Model ----
(***************************************************************************)
(* Model of triangular-database: JSON record files under tree/, the schema *)
(* document tree.json, the container lock registry and the request         *)
(* handlers of src/src/tree.rs.                                            *)
(*                                                                         *)
(* Four specifications share the variables:                                *)
(*   Spec     handlers running concurrently, one step per file access;     *)
(*   SpecSeq  process start-up (initialize_tree, create_containers) and    *)
(*            handlers called one after another, one action per call;      *)
(*   SpecTpl  replace_placeholder applied to bounded templates;            *)
(*   SpecApi  process_request of src/src/api.rs (the variant whose         *)
(*            templates carry the key placeholder "module"), one action    *)
(*            per request.                                                 *)
(***************************************************************************)
EXTENDS Naturals, Sequences, FiniteSets, TLC

VARIABLES
    tree_json,        \* content of the schema document tree.json
    files,            \* content of tree/<name>.json, per container name
    boot,             \* position of main(): start, tree_ready, serving, ...
    created,          \* per container, the values of the Init calls that returned the confirmation
    fresh,            \* per container, whether its file held the empty array when serving began
    container_locks,  \* ContainerManager.container_locks: name -> lock object (0: no entry)
    mutex,            \* per lock object, the operation holding its MutexGuard (0: unlocked)
    pc,               \* per operation, its position in the handler (Spec)
    call,             \* per operation, the handler and its arguments
    loc,              \* per operation, the formatted_data its thread is about to write
    resp,             \* per operation, the string it returned
    arc,              \* per operation, the lock object its _lock binding refers to (0: none)
    tpl_in,           \* SpecTpl: the template handed to replace_placeholder
    tpl_arg,          \* SpecTpl: the replacement value
    tpl_out,          \* SpecTpl: the value after replace_placeholder
    tpl_pc,           \* SpecTpl: ready / done
    request,          \* SpecApi: the tokens of the request process_request served last
    response          \* SpecApi: the string process_request returned for it

vars == <<tree_json, files, boot, created, fresh, container_locks,
          mutex, pc, call, loc, resp, arc, tpl_in, tpl_arg, tpl_out, tpl_pc,
          request, response>>

(***************************************************************************)
(* Bounds                                                                  *)
(***************************************************************************)
MaxDepth == 2      \* nesting depth of the templates of SpecTpl
MaxArr == 1        \* longest array in a template of SpecTpl
MaxRecords == 2    \* longest record array a container file grows to
MaxCpus == 2       \* largest thread_pool_size
NumProcs == 2      \* operations running concurrently in Spec

(***************************************************************************)
(* serde_json::Value.  A value is a record [t, s, c]: t its kind, s the    *)
(* text of a string (or number), c its children, each an entry [k, v]: k   *)
(* the key under an object ("" under an array), v the child value.         *)
(* serde_json::Map is a BTreeMap: the entries of an object are kept in key *)
(* order, one entry per key.                                               *)
(***************************************************************************)
KeyOrder == <<"a", "age", "alice", "bob", "email", "id", "module", "msg">>

KeyRank(k) == CHOOSE i \in 1..Len(KeyOrder) : KeyOrder[i] = k

JNull == [t |-> "null", s |-> "", c |-> <<>>]

JStr(s) == [t |-> "str", s |-> s, c |-> <<>>]

JNum(s) == [t |-> "num", s |-> s, c |-> <<>>]

JArr(vals) == [t |-> "arr", s |-> "", c |-> [i \in 1..Len(vals) |-> [k |-> "", v |-> vals[i]]]]

JObj(entries) == [t |-> "obj", s |-> "", c |-> entries]

Entry(k, v) == [k |-> k, v |-> v]

\* Value::as_array: the elements, for an array
Elems(val) == [i \in 1..Len(val.c) |-> val.c[i].v]

\* Map::keys: the keys in the map's order
Keys(val) == [i \in 1..Len(val.c) |-> val.c[i].k]

\* Value::get(key) / Map::get(key): <<v>> for Some(v), <<>> for None
Get(val, key) ==
    IF val.t # "obj" THEN <<>>
    ELSE LET hit == SelectSeq(val.c, LAMBDA e : e.k = key)
         IN  IF hit = <<>> THEN <<>> ELSE <<hit[1].v>>

\* Value::as_str: <<s>> for Some(s), <<>> for None
AsStr(val) == IF val.t = "str" THEN <<val.s>> ELSE <<>>

\* Map::insert(key, v) on the entries of an object: replaces the value of an
\* existing key, otherwise adds the entry at its place in key order
Insert(entries, key, v) ==
    IF \E i \in 1..Len(entries) : entries[i].k = key
    THEN [i \in 1..Len(entries) |-> IF entries[i].k = key THEN Entry(key, v) ELSE entries[i]]
    ELSE SelectSeq(entries, LAMBDA e : KeyRank(e.k) < KeyRank(key))
         \o <<Entry(key, v)>>
         \o SelectSeq(entries, LAMBDA e : KeyRank(e.k) > KeyRank(key))

(***************************************************************************)
(* replace_placeholder (tree.rs 344-371)                                   *)
(***************************************************************************)
\* variant: substitutes in the outermost object only, never descending
replace_placeholder_top_only(container, replacement_value) ==
    IF container.t = "obj"
    THEN JObj([i \in 1..Len(container.c) |->
                 IF container.c[i].k = "id"
                 THEN Entry("id", JStr(replacement_value))
                 ELSE container.c[i]])
    ELSE container

RECURSIVE replace_placeholder(_, _)
replace_placeholder(container, replacement_value) ==
    CASE container.t = "obj" ->
            JObj([i \in 1..Len(container.c) |->
                    IF container.c[i].k = "id"
                    THEN Entry("id", JStr(replacement_value))
                    ELSE Entry(container.c[i].k,
                               replace_placeholder(container.c[i].v, replacement_value))])
      [] container.t = "arr" ->
            JArr([i \in 1..Len(container.c) |->
                    replace_placeholder(container.c[i].v, replacement_value)])
      [] OTHER -> container

(***************************************************************************)
(* Files.  A file is absent, holds text that is no JSON ("garbage"), holds  *)
(* nothing yet ("empty": fs::write has opened it with truncation and not   *)
(* written its bytes), or holds the text serde_json::to_string_pretty      *)
(* wrote for a value.                                                      *)
(***************************************************************************)
Absent == [t |-> "absent", v |-> JNull]

Truncated == [t |-> "empty", v |-> JNull]

Garbage == [t |-> "garbage", v |-> JNull]

\* serde_json::to_string_pretty(value): the text of the value
to_string_pretty(val) == [t |-> "text", v |-> val]

\* serde_json::from_str(content): <<value>> for Ok(value), <<>> for Err
from_str(content) == IF content.t = "text" THEN <<content.v>> ELSE <<>>

\* Path::exists
Exists(content) == content.t # "absent"

(***************************************************************************)
(* Strings the handlers return: the sequence of their non-empty pieces.    *)
(***************************************************************************)
Fmt(pieces) == SelectSeq(pieces, LAMBDA s : s # "")

RECURSIVE Join(_)
\* [String]::join(", ")
Join(strs) ==
    IF Len(strs) = 0 THEN <<>>
    ELSE IF Len(strs) = 1 THEN Fmt(<<strs[1]>>)
    ELSE Fmt(<<strs[1], ", ">>) \o Join(Tail(strs))

\* what a spawned handler thread did: the string it returns (ret), whether it
\* reached fs::write (write) and with which text (data); ok marks the return
\* statements of the success paths
Returned(ret, ok) == [write |-> FALSE, data |-> Absent, ret |-> ret, ok |-> ok]

Writes(data, ret) == [write |-> TRUE, data |-> data, ret |-> ret, ok |-> TRUE]

\* obj.get("id").and_then(|v| v.as_str()) == Some(&module_name)
IdIs(item, module_name) ==
    /\ item.t = "obj"
    /\ Get(item, "id") # <<>>
    /\ AsStr(Get(item, "id")[1]) = <<module_name>>

\* index of the first element of the array the for loop matches, 0 if none
FirstMatch(items, module_name) ==
    IF \E i \in 1..Len(items) : IdIs(items[i], module_name)
    THEN CHOOSE i \in 1..Len(items) :
            /\ IdIs(items[i], module_name)
            /\ \A j \in 1..(i - 1) : ~IdIs(items[j], module_name)
    ELSE 0

(***************************************************************************)
(* handle_init: the spawned thread, up to its fs::write (tree.rs 113-158)  *)
(***************************************************************************)
\* variant: an unknown container is given an empty template instead of the error
init_thread_no_lookup(tj, f, container_name, value_str) ==
    LET template == IF from_str(tj) = <<>> THEN <<>> ELSE Get(from_str(tj)[1], container_name)
        new_container == IF template = <<>> THEN JObj(<<>>)
                         ELSE replace_placeholder(template[1], value_str)
        current_data == IF Exists(f) /\ from_str(f) # <<>> THEN from_str(f)[1] ELSE JArr(<<>>)
        pushed == IF current_data.t = "arr"
                  THEN JArr(Append(Elems(current_data), new_container))
                  ELSE current_data
    IN  Writes(to_string_pretty(pushed),
               Fmt(<<"INIT ", value_str, " in Container '", container_name, "'">>))

\* variant: the template is appended as it stands, placeholder included
init_thread_no_substitution(tj, f, container_name, value_str) ==
    IF ~Exists(tj) THEN Returned(<<"ERROR: Failed to read tree.json">>, FALSE)
    ELSE IF from_str(tj) = <<>> THEN Returned(<<"ERROR: Failed to parse tree.json">>, FALSE)
    ELSE LET tree_data == from_str(tj)[1]
             template == Get(tree_data, container_name)
         IN  IF template = <<>>
             THEN Returned(<<"ERROR: Container not found in tree.json">>, FALSE)
             ELSE LET new_container == template[1]
                      current_data ==
                          IF Exists(f) /\ from_str(f) # <<>> THEN from_str(f)[1]
                          ELSE JArr(<<>>)
                      pushed == IF current_data.t = "arr"
                                THEN JArr(Append(Elems(current_data), new_container))
                                ELSE current_data
                  IN  Writes(to_string_pretty(pushed),
                             Fmt(<<"INIT ", value_str, " in Container '", container_name, "'">>))

init_thread(tj, f, container_name, value_str) ==
    IF ~Exists(tj) THEN Returned(<<"ERROR: Failed to read tree.json">>, FALSE)
    ELSE IF from_str(tj) = <<>> THEN Returned(<<"ERROR: Failed to parse tree.json">>, FALSE)
    ELSE LET tree_data == from_str(tj)[1]
             template == Get(tree_data, container_name)
         IN  IF template = <<>>
             THEN Returned(<<"ERROR: Container not found in tree.json">>, FALSE)
             ELSE LET new_container == replace_placeholder(template[1], value_str)
                      current_data ==
                          IF Exists(f) /\ from_str(f) # <<>> THEN from_str(f)[1]
                          ELSE JArr(<<>>)
                      pushed == IF current_data.t = "arr"
                                THEN JArr(Append(Elems(current_data), new_container))
                                ELSE current_data
                  IN  Writes(to_string_pretty(pushed),
                             Fmt(<<"INIT ", value_str, " in Container '", container_name, "'">>))

(***************************************************************************)
(* handle_set: the spawned thread, up to its fs::write (tree.rs 173-209)   *)
(***************************************************************************)
\* variant: the loop does not return at the first match, every match is updated
set_thread_all_matches(f, module_name, key_name, value_str) ==
    IF ~Exists(f) THEN Returned(<<"ERROR: Container does not exist">>, FALSE)
    ELSE IF from_str(f) = <<>> THEN Returned(<<"ERROR: Failed to parse container file">>, FALSE)
    ELSE LET current_data == from_str(f)[1]
             items == Elems(current_data)
             i == IF current_data.t = "arr" THEN FirstMatch(items, module_name) ELSE 0
         IN  IF i = 0 THEN Returned(<<"ERROR: Module not found">>, FALSE)
             ELSE Writes(to_string_pretty(
                            JArr([j \in 1..Len(items) |->
                                    IF IdIs(items[j], module_name)
                                    THEN JObj(Insert(items[j].c, key_name, JStr(value_str)))
                                    ELSE items[j]])),
                         Fmt(<<"SET ", key_name, " ", value_str>>))

set_thread(f, module_name, key_name, value_str) ==
    IF ~Exists(f) THEN Returned(<<"ERROR: Container does not exist">>, FALSE)
    ELSE IF from_str(f) = <<>> THEN Returned(<<"ERROR: Failed to parse container file">>, FALSE)
    ELSE LET current_data == from_str(f)[1]
             items == Elems(current_data)
             i == IF current_data.t = "arr" THEN FirstMatch(items, module_name) ELSE 0
         IN  IF i = 0 THEN Returned(<<"ERROR: Module not found">>, FALSE)
             ELSE Writes(to_string_pretty(
                            JArr([j \in 1..Len(items) |->
                                    IF j = i
                                    THEN JObj(Insert(items[j].c, key_name, JStr(value_str)))
                                    ELSE items[j]])),
                         Fmt(<<"SET ", key_name, " ", value_str>>))

(***************************************************************************)
(* handle_get: the spawned thread (tree.rs 223-252)                        *)
(***************************************************************************)
get_thread(f, module_name, key_name) ==
    IF ~Exists(f) THEN Returned(<<"ERROR: Container does not exist">>, FALSE)
    ELSE IF from_str(f) = <<>> THEN Returned(<<"ERROR: Failed to parse container file">>, FALSE)
    ELSE LET data == from_str(f)[1]
             items == IF data.t = "arr" THEN Elems(data) ELSE <<>>
             hits == SelectSeq(items, LAMBDA item :
                        IdIs(item, module_name) /\ Get(item, key_name) # <<>>)
         IN  IF hits = <<>> THEN Returned(<<"ERROR: Key not found">>, FALSE)
             ELSE LET value == Get(hits[1], key_name)[1]
                  IN  Returned(Fmt(<<IF AsStr(value) = <<>> THEN "" ELSE AsStr(value)[1]>>), TRUE)

(***************************************************************************)
(* handle_list_modules: the spawned thread (tree.rs 264-293)               *)
(***************************************************************************)
\* variant: a missing container file is listed as an empty container
list_modules_thread_missing_is_empty(f) ==
    IF ~Exists(f) THEN Returned(<<>>, TRUE)
    ELSE IF from_str(f) = <<>> THEN Returned(<<"ERROR: Failed to parse container file">>, FALSE)
    ELSE LET data == from_str(f)[1]
         IN  IF data.t # "arr" THEN Returned(<<"ERROR: Invalid container format">>, FALSE)
             ELSE LET withid == SelectSeq(Elems(data), LAMBDA item :
                                   /\ item.t = "obj"
                                   /\ Get(item, "id") # <<>>
                                   /\ AsStr(Get(item, "id")[1]) # <<>>)
                      modules == [i \in 1..Len(withid) |-> AsStr(Get(withid[i], "id")[1])[1]]
                  IN  Returned(Join(modules), TRUE)

list_modules_thread(f) ==
    IF ~Exists(f) THEN Returned(<<"ERROR: Container does not exist">>, FALSE)
    ELSE IF from_str(f) = <<>> THEN Returned(<<"ERROR: Failed to parse container file">>, FALSE)
    ELSE LET data == from_str(f)[1]
         IN  IF data.t # "arr" THEN Returned(<<"ERROR: Invalid container format">>, FALSE)
             ELSE LET withid == SelectSeq(Elems(data), LAMBDA item :
                                   /\ item.t = "obj"
                                   /\ Get(item, "id") # <<>>
                                   /\ AsStr(Get(item, "id")[1]) # <<>>)
                      modules == [i \in 1..Len(withid) |-> AsStr(Get(withid[i], "id")[1])[1]]
                  IN  Returned(Join(modules), TRUE)

(***************************************************************************)
(* handle_list_keys: the spawned thread (tree.rs 306-339)                  *)
(***************************************************************************)
\* variant: the identifier field is not filtered out
list_keys_thread_unfiltered(f, module_name) ==
    IF ~Exists(f) THEN Returned(<<"ERROR: Container does not exist">>, FALSE)
    ELSE IF from_str(f) = <<>> THEN Returned(<<"ERROR: Failed to parse container file">>, FALSE)
    ELSE LET data == from_str(f)[1]
             items == IF data.t = "arr" THEN Elems(data) ELSE <<>>
             i == FirstMatch(items, module_name)
         IN  IF i = 0 THEN Returned(<<"ERROR: Module not found">>, FALSE)
             ELSE Returned(Join(Keys(items[i])), TRUE)

list_keys_thread(f, module_name) ==
    IF ~Exists(f) THEN Returned(<<"ERROR: Container does not exist">>, FALSE)
    ELSE IF from_str(f) = <<>> THEN Returned(<<"ERROR: Failed to parse container file">>, FALSE)
    ELSE LET data == from_str(f)[1]
             items == IF data.t = "arr" THEN Elems(data) ELSE <<>>
             i == FirstMatch(items, module_name)
         IN  IF i = 0 THEN Returned(<<"ERROR: Module not found">>, FALSE)
             ELSE Returned(Join(SelectSeq(Keys(items[i]), LAMBDA k : k # "id")), TRUE)

(***************************************************************************)
(* The data the model runs on                                              *)
(***************************************************************************)
Names == {"users", "logs"}

Values == {"alice", "bob"}

SetKeys == {"id", "email"}

SetValues == {"bob"}

UsersTemplate == JObj(<<Entry("email", JStr("")), Entry("id", JStr(""))>>)

LogsTemplate == JObj(<<Entry("msg", JStr(""))>>)

SchemaEmpty == JObj(<<>>)

SchemaUsers == JObj(<<Entry("users", UsersTemplate)>>)

SchemaBoth == JObj(<<Entry("logs", LogsTemplate), Entry("users", UsersTemplate)>>)

\* users.json as an earlier run leaves it after handle_init(users, alice),
\* handle_init(users, bob), handle_set(users, bob, age, bob) and
\* handle_set(users, alice, id, bob): two records identified bob, the
\* second one only with the key age
DupFile ==
    LET tj == to_string_pretty(SchemaUsers)
        f1 == init_thread(tj, to_string_pretty(JArr(<<>>)), "users", "alice").data
        f2 == init_thread(tj, f1, "users", "bob").data
        f3 == set_thread(f2, "bob", "age", "bob").data
    IN  set_thread(f3, "alice", "id", "bob").data

\* number of records in a container file (0 when it holds no array)
RecordCount(f) ==
    IF from_str(f) # <<>> /\ from_str(f)[1].t = "arr" THEN Len(from_str(f)[1].c) ELSE 0

(***************************************************************************)
(* initialize_tree (tree.rs 81-94): writes "{}" when tree.json is absent   *)
(***************************************************************************)
initialize_tree(tj) == IF Exists(tj) THEN tj ELSE to_string_pretty(SchemaEmpty)

(***************************************************************************)
(* ContainerManager::create_containers (tree.rs 27-67)                     *)
(***************************************************************************)
RECURSIVE Chunks(_, _)
\* slice::chunks(chunk_size), chunk_size > 0
Chunks(seq, chunk_size) ==
    IF Len(seq) = 0 THEN <<>>
    ELSE IF Len(seq) <= chunk_size THEN <<seq>>
    ELSE <<SubSeq(seq, 1, chunk_size)>> \o Chunks(SubSeq(seq, chunk_size + 1, Len(seq)), chunk_size)

RECURSIVE worker_overwrites(_, _)
\* variant: the worker writes the empty array without asking whether the file exists
worker_overwrites(chunk, fs) ==
    IF Len(chunk) = 0 THEN fs
    ELSE worker_overwrites(Tail(chunk),
                           [fs EXCEPT ![Head(chunk)] = to_string_pretty(JArr(<<>>))])

RECURSIVE worker(_, _)
\* the thread spawned for one chunk (tree.rs 43-56)
worker(chunk, fs) ==
    IF Len(chunk) = 0 THEN fs
    ELSE worker(Tail(chunk),
                IF ~Exists(fs[Head(chunk)])
                THEN [fs EXCEPT ![Head(chunk)] = to_string_pretty(JArr(<<>>))]
                ELSE fs)

RECURSIVE run_workers(_, _)
\* the scoped threads, one per chunk; the chunks name different files
run_workers(chunks, fs) ==
    IF Len(chunks) = 0 THEN fs
    ELSE run_workers(Tail(chunks), worker(Head(chunks), fs))

\* outcome "err": the ? of lines 31-32; "panic": chunks(0) of line 39
create_containers(tj, fs, thread_pool_size) ==
    IF ~Exists(tj) \/ from_str(tj) = <<>> THEN [outcome |-> "err", files |-> fs]
    ELSE LET tree_data == from_str(tj)[1]
         IN  IF tree_data.t # "obj" THEN [outcome |-> "ok", files |-> fs]
             ELSE LET containers == Keys(tree_data)
                      chunk_size == (Len(containers) + thread_pool_size - 1) \div thread_pool_size
                  IN  IF chunk_size = 0 THEN [outcome |-> "panic", files |-> fs]
                      ELSE [outcome |-> "ok",
                            files |-> run_workers(Chunks(containers, chunk_size), fs)]

(***************************************************************************)
(* ContainerManager::get_container_lock (tree.rs 69-74), run under the     *)
(* registry's own mutex: the map after entry().or_insert_with().  The      *)
(* handle returned is the map's entry for the name.                        *)
(***************************************************************************)
\* variant: insert() in place of entry().or_insert_with(): a new mutex per call
get_container_lock_always_new(locks, container_name) ==
    [locks EXCEPT ![container_name] =
        1 + (CHOOSE m \in {locks[n] : n \in Names} : \A n \in Names : locks[n] <= m)]

get_container_lock(locks, container_name) ==
    IF locks[container_name] # 0 THEN locks
    ELSE [locks EXCEPT ![container_name] = 1 + Cardinality({n \in Names : locks[n] # 0})]

(***************************************************************************)
(* State shared by the specifications                                      *)
(***************************************************************************)
Procs == 1..NumProcs

NoCall == [op |-> "none", c |-> "", m |-> "", k |-> "", v |-> ""]

NoLocks == [n \in Names |-> 0]

IdleProcs ==
    /\ pc = [p \in Procs |-> "idle"]
    /\ call = [p \in Procs |-> NoCall]
    /\ loc = [p \in Procs |-> Absent]
    /\ resp = [p \in Procs |-> <<>>]
    /\ arc = [p \in Procs |-> 0]

NoTpl ==
    /\ tpl_in = JNull
    /\ tpl_arg = ""
    /\ tpl_out = JNull
    /\ tpl_pc = "unused"

procvars == <<pc, call, loc, resp, arc>>

tplvars == <<tpl_in, tpl_arg, tpl_out, tpl_pc>>

NoApi ==
    /\ request = <<>>
    /\ response = <<>>

apivars == <<request, response>>

(***************************************************************************)
(* SpecSeq: start-up, then handlers called one after another               *)
(***************************************************************************)
InitSeq ==
    /\ tree_json \in {Absent, Garbage, to_string_pretty(JArr(<<>>)),
                      to_string_pretty(SchemaEmpty), to_string_pretty(SchemaUsers),
                      to_string_pretty(SchemaBoth)}
    /\ files \in {[n \in Names |-> IF n = "users" THEN u ELSE Absent] :
                     u \in {Absent, Garbage, to_string_pretty(JObj(<<>>)), DupFile}}
    /\ boot = "start"
    /\ created = [n \in Names |-> <<>>]
    /\ fresh = [n \in Names |-> FALSE]
    /\ container_locks = NoLocks
    /\ mutex = [l \in 1..Cardinality(Names) |-> 0]
    /\ IdleProcs
    /\ NoTpl
    /\ NoApi

\* main (server.rs 14-19)
InitializeTree ==
    /\ boot = "start"
    /\ tree_json' = initialize_tree(tree_json)
    /\ boot' = "tree_ready"
    /\ UNCHANGED <<files, created, fresh, container_locks, mutex, procvars, tplvars, apivars>>

\* main (server.rs 21-26): initialize_containers builds the manager, with
\* thread_pool_size = num_cpus::get(), and runs create_containers
InitializeContainers ==
    /\ boot = "tree_ready"
    /\ \E thread_pool_size \in 1..MaxCpus :
          LET r == create_containers(tree_json, files, thread_pool_size)
          IN  /\ files' = r.files
              /\ boot' = CASE r.outcome = "ok" -> "serving"
                           [] r.outcome = "err" -> "failed"
                           [] OTHER -> "panicked"
              /\ fresh' = [n \in Names |-> r.outcome = "ok" /\ r.files[n] = to_string_pretty(JArr(<<>>))]
    /\ container_locks' = NoLocks
    /\ UNCHANGED <<tree_json, created, mutex, procvars, tplvars, apivars>>

\* the process ends and is started again over the same directory
Restart ==
    /\ boot \in {"serving", "failed", "panicked"}
    /\ boot' = "start"
    /\ created' = [n \in Names |-> <<>>]
    /\ fresh' = [n \in Names |-> FALSE]
    /\ container_locks' = NoLocks
    /\ UNCHANGED <<tree_json, files, mutex, procvars, tplvars, apivars>>

\* the state after a handler whose thread did r
Finish(op, c, v, r) ==
    /\ files' = IF r.write THEN [files EXCEPT ![c] = r.data] ELSE files
    /\ created' = IF op = "init" /\ r.ok THEN [created EXCEPT ![c] = Append(@, v)] ELSE created
    /\ container_locks' = get_container_lock(container_locks, c)
    /\ UNCHANGED <<tree_json, boot, fresh, mutex, procvars, tplvars, apivars>>

\* handle_init (tree.rs 102-161)
HandleInit(c, v) ==
    /\ boot = "serving"
    /\ RecordCount(files[c]) < MaxRecords
    /\ Len(created[c]) < MaxRecords
    /\ Finish("init", c, v, init_thread(tree_json, files[c], c, v))

\* handle_set (tree.rs 163-212)
HandleSet(c, m, k, v) ==
    /\ boot = "serving"
    /\ Finish("set", c, v, set_thread(files[c], m, k, v))

\* handle_get (tree.rs 214-255)
HandleGet(c, m, k) ==
    /\ boot = "serving"
    /\ Finish("get", c, "", get_thread(files[c], m, k))

\* handle_list_modules (tree.rs 257-296)
HandleListModules(c) ==
    /\ boot = "serving"
    /\ Finish("list_modules", c, "", list_modules_thread(files[c]))

\* handle_list_keys (tree.rs 298-342)
HandleListKeys(c, m) ==
    /\ boot = "serving"
    /\ Finish("list_keys", c, "", list_keys_thread(files[c], m))

NextSeq ==
    \/ InitializeTree
    \/ InitializeContainers
    \/ Restart
    \/ \E c \in Names, v \in Values : HandleInit(c, v)
    \/ \E c \in Names, m \in Values, k \in SetKeys, v \in SetValues : HandleSet(c, m, k, v)
    \/ \E c \in Names, m \in Values, k \in SetKeys : HandleGet(c, m, k)
    \/ \E c \in Names : HandleListModules(c)
    \/ \E c \in Names, m \in Values : HandleListKeys(c, m)

SpecSeq == InitSeq /\ [][NextSeq]_vars

(***************************************************************************)
(* Spec: handlers running concurrently.  Each operation is one call of a   *)
(* handler: it fetches the container's lock object from the registry       *)
(* (tree.rs 105, 165, 216, 259, 300: the Arc is bound to _lock, its mutex  *)
(* is never locked), its spawned thread reads the files, and a thread that *)
(* has something to write overwrites the container file in later steps:    *)
(* fs::write truncates the file, then writes the bytes.                    *)
(* The state it starts from is the one SpecSeq reaches by a first start    *)
(* over SchemaBoth followed by handle_init("users", "alice").              *)
(***************************************************************************)
ConcModules == {"alice"}

ConcCalls ==
    {[op |-> "init", c |-> c, m |-> "", k |-> "", v |-> v] : c \in Names, v \in Values}
    \cup {[op |-> "set", c |-> c, m |-> m, k |-> k, v |-> v] :
             c \in Names, m \in ConcModules, k \in SetKeys, v \in SetValues}
    \cup {[op |-> "get", c |-> c, m |-> m, k |-> k, v |-> ""] :
             c \in Names, m \in ConcModules, k \in SetKeys}
    \cup {[op |-> "list_modules", c |-> c, m |-> "", k |-> "", v |-> ""] : c \in Names}
    \cup {[op |-> "list_keys", c |-> c, m |-> m, k |-> "", v |-> ""] :
             c \in Names, m \in ConcModules}

\* what the thread spawned by call cl does on schema text tj and container file f
Thread(cl, tj, f) ==
    CASE cl.op = "init" -> init_thread(tj, f, cl.c, cl.v)
      [] cl.op = "set" -> set_thread(f, cl.m, cl.k, cl.v)
      [] cl.op = "get" -> get_thread(f, cl.m, cl.k)
      [] cl.op = "list_modules" -> list_modules_thread(f)
      [] OTHER -> list_keys_thread(f, cl.m)

\* a whole handler run alone on the files fs
RunAlone(cl, tj, fs) ==
    LET r == Thread(cl, tj, fs[cl.c])
    IN  IF r.write THEN [fs EXCEPT ![cl.c] = r.data] ELSE fs

ServingFiles ==
    RunAlone([op |-> "init", c |-> "users", m |-> "", k |-> "", v |-> "alice"],
             to_string_pretty(SchemaBoth),
             create_containers(to_string_pretty(SchemaBoth), [n \in Names |-> Absent], 1).files)

Init ==
    /\ tree_json = to_string_pretty(SchemaBoth)
    /\ files = ServingFiles
    /\ boot = "serving"
    /\ created = [n \in Names |-> IF n = "users" THEN <<"alice">> ELSE <<>>]
    /\ fresh = [n \in Names |-> TRUE]
    /\ container_locks = get_container_lock(NoLocks, "users")
    /\ mutex = [l \in 1..Cardinality(Names) |-> 0]
    /\ IdleProcs
    /\ NoTpl
    /\ NoApi

\* the handler up to thread::scope: get_container_lock, run under the registry mutex
Begin(p, cl) ==
    /\ pc[p] = "idle"
    /\ call' = [call EXCEPT ![p] = cl]
    /\ container_locks' = get_container_lock(container_locks, cl.c)
    /\ arc' = [arc EXCEPT ![p] = get_container_lock(container_locks, cl.c)[cl.c]]
    /\ pc' = [pc EXCEPT ![p] = "spawned"]
    /\ UNCHANGED <<tree_json, files, boot, created, fresh, mutex, loc, resp, tplvars, apivars>>

\* variant: one lock for all containers, held from the read to the end of the write
ThreadRead_one_lock(p) ==
    /\ pc[p] = "spawned"
    /\ \A q \in Procs \ {p} : pc[q] # "writing" /\ pc[q] # "truncated"
    /\ LET r == Thread(call[p], tree_json, files[call[p].c])
       IN  /\ resp' = [resp EXCEPT ![p] = r.ret]
           /\ loc' = [loc EXCEPT ![p] = r.data]
           /\ pc' = [pc EXCEPT ![p] = IF r.write THEN "writing" ELSE "done"]
           /\ arc' = [arc EXCEPT ![p] = IF r.write THEN @ ELSE 0]
    /\ UNCHANGED <<tree_json, files, boot, created, fresh, container_locks, mutex, call, tplvars, apivars>>

\* the spawned thread reads tree.json and the container file; a thread with
\* nothing to write returns, and the handler drops its Arc
ThreadRead(p) ==
    /\ pc[p] = "spawned"
    /\ LET r == Thread(call[p], tree_json, files[call[p].c])
       IN  /\ resp' = [resp EXCEPT ![p] = r.ret]
           /\ loc' = [loc EXCEPT ![p] = r.data]
           /\ pc' = [pc EXCEPT ![p] = IF r.write THEN "writing" ELSE "done"]
           /\ arc' = [arc EXCEPT ![p] = IF r.write THEN @ ELSE 0]
    /\ UNCHANGED <<tree_json, files, boot, created, fresh, container_locks, mutex, call, tplvars, apivars>>

\* fs::write(&container_file, formatted_data) opens the file with truncation
\* (File::create) before it writes the bytes
ThreadTruncate(p) ==
    /\ pc[p] = "writing"
    /\ files' = [files EXCEPT ![call[p].c] = Truncated]
    /\ pc' = [pc EXCEPT ![p] = "truncated"]
    /\ UNCHANGED <<tree_json, boot, created, fresh, container_locks, mutex, call, loc, resp,
                   arc, tplvars, apivars>>

\* fs::write: write_all(formatted_data), then the return
ThreadWrite(p) ==
    /\ pc[p] = "truncated"
    /\ files' = [files EXCEPT ![call[p].c] = loc[p]]
    /\ loc' = [loc EXCEPT ![p] = Absent]
    /\ pc' = [pc EXCEPT ![p] = "done"]
    /\ arc' = [arc EXCEPT ![p] = 0]
    /\ UNCHANGED <<tree_json, boot, created, fresh, container_locks, mutex, call, resp, tplvars, apivars>>

Next ==
    \/ \E p \in Procs, cl \in ConcCalls : Begin(p, cl)
    \/ \E p \in Procs : ThreadRead(p)
    \/ \E p \in Procs : ThreadTruncate(p)
    \/ \E p \in Procs : ThreadWrite(p)

Spec == Init /\ [][Next]_vars

\* one call of each handler on each container
FairCalls == {cl \in ConcCalls : cl.v \in {"", "bob"} /\ cl.k \in {"", "email"}}

NextFair ==
    \/ \E p \in Procs, cl \in FairCalls : Begin(p, cl)
    \/ \E p \in Procs : ThreadRead(p)
    \/ \E p \in Procs : ThreadTruncate(p)
    \/ \E p \in Procs : ThreadWrite(p)

\* the spawned threads are operating-system threads the handler joins
\* (thread::scope, tree.rs 112-159): each one that can take a step takes it
SpecFair ==
    /\ Init
    /\ [][NextFair]_vars
    /\ \A p \in Procs :
          WF_vars(ThreadRead(p)) /\ WF_vars(ThreadTruncate(p)) /\ WF_vars(ThreadWrite(p))

(***************************************************************************)
(* SpecTpl: replace_placeholder on every template of bounded depth         *)
(***************************************************************************)
TplScalars == {JStr("x")}

ObjectsOver(S) ==
    {JObj(<<>>)}
    \cup {JObj(<<Entry("a", x)>>) : x \in S}
    \cup {JObj(<<Entry("id", x)>>) : x \in S}
    \cup {JObj(<<Entry("a", x), Entry("id", y)>>) : x \in S, y \in TplScalars}

ArraysOver(S) == UNION {{JArr(e) : e \in [1..n -> S]} : n \in 0..MaxArr}

RECURSIVE Templates(_)
Templates(d) ==
    IF d = 0 THEN TplScalars
    ELSE LET sub == Templates(d - 1)
         IN  TplScalars \cup ObjectsOver(sub) \cup ArraysOver(sub)

InitTpl ==
    /\ tpl_in \in Templates(MaxDepth)
    /\ tpl_arg \in Values
    /\ tpl_out = JNull
    /\ tpl_pc = "ready"
    /\ tree_json = Absent
    /\ files = [n \in Names |-> Absent]
    /\ boot = "start"
    /\ created = [n \in Names |-> <<>>]
    /\ fresh = [n \in Names |-> FALSE]
    /\ container_locks = NoLocks
    /\ mutex = [l \in 1..Cardinality(Names) |-> 0]
    /\ IdleProcs
    /\ NoApi

\* tree.rs 124-126: the template is cloned and the clone is rewritten
Instantiate ==
    /\ tpl_pc = "ready"
    /\ tpl_out' = replace_placeholder(tpl_in, tpl_arg)
    /\ tpl_pc' = "done"
    /\ UNCHANGED <<tpl_in, tpl_arg, tree_json, files, boot, created, fresh,
                   container_locks, mutex, procvars, apivars>>

NextTpl == Instantiate

SpecTpl == InitTpl /\ [][NextTpl]_vars

(***************************************************************************)
(* src/src/api.rs: the request handlers of the key-substitution variant.   *)
(* A container file holds one object, module name -> object of the keys.   *)
(* A handler returns Ok(msg) or Err(msg); write and data say whether it    *)
(* reached fs::write and with which text.                                  *)
(***************************************************************************)
ApiOk(msg) == [ok |-> TRUE, msg |-> msg, write |-> FALSE, data |-> Absent]

ApiErr(msg) == [ok |-> FALSE, msg |-> msg, write |-> FALSE, data |-> Absent]

ApiWrote(data, msg) == [ok |-> TRUE, msg |-> msg, write |-> TRUE, data |-> data]

\* the text of the std::io::Error and of the serde_json::Error the ? passes on
IoError == <<"No such file or directory (os error 2)">>

SerdeError == <<"expected value at line 1 column 1">>

FileMissing(container) == Fmt(<<"Container file '", "tree/", container, ".json", "' does not exist">>)

RECURSIVE process_template(_, _)
RECURSIVE process_entries(_, _, _, _)
\* the for loop of api.rs 273-280 from entry i on: new_obj.insert per entry
process_entries(entries, i, new_obj, replacement_value) ==
    IF i > Len(entries) THEN new_obj
    ELSE process_entries(entries, i + 1,
                         Insert(new_obj,
                                IF entries[i].k = "module" THEN replacement_value
                                ELSE entries[i].k,
                                process_template(entries[i].v, replacement_value)),
                         replacement_value)

\* process_template (api.rs 269-291)
process_template(template, replacement_value) ==
    CASE template.t = "obj" -> JObj(process_entries(template.c, 1, <<>>, replacement_value))
      [] template.t = "arr" ->
            JArr([i \in 1..Len(template.c) |->
                    process_template(template.c[i].v, replacement_value)])
      [] OTHER -> template

\* handle_init_command (api.rs 125-148)
handle_init_command(tj, container, value) ==
    IF ~Exists(tj) THEN ApiErr(IoError)
    ELSE IF from_str(tj) = <<>> THEN ApiErr(SerdeError)
    ELSE LET tree_data == from_str(tj)[1]
             container_template == Get(tree_data, container)
         IN  IF tree_data.t # "obj" THEN ApiErr(<<"Invalid tree.json format">>)
             ELSE IF container_template = <<>>
             THEN ApiErr(Fmt(<<"Container '", container, "' not found in tree.json">>))
             ELSE ApiWrote(to_string_pretty(process_template(container_template[1], value)),
                           Fmt(<<"INIT ", value, " in Container '", container, "'">>))

\* variant: the contains_key test of api.rs 159 left out
set_validation_any_key(tree_data, container, key) ==
    LET container_obj == Get(tree_data, container)
        module_obj == IF container_obj # <<>> THEN Get(container_obj[1], "module") ELSE <<>>
    IN  IF tree_data.t # "obj" THEN <<>>
        ELSE IF container_obj = <<>> \/ container_obj[1].t # "obj"
        THEN Fmt(<<"Container '", container, "' not found in tree.json">>)
        ELSE IF module_obj = <<>> \/ module_obj[1].t # "obj"
        THEN Fmt(<<"Module structure not found in tree.json for container '", container, "'">>)
        ELSE <<>>

\* api.rs 155-168: the message of the early return, <<>> when the check passes
set_validation(tree_data, container, key) ==
    LET container_obj == Get(tree_data, container)
        module_obj == IF container_obj # <<>> THEN Get(container_obj[1], "module") ELSE <<>>
    IN  IF tree_data.t # "obj" THEN <<>>
        ELSE IF container_obj = <<>> \/ container_obj[1].t # "obj"
        THEN Fmt(<<"Container '", container, "' not found in tree.json">>)
        ELSE IF module_obj = <<>> \/ module_obj[1].t # "obj"
        THEN Fmt(<<"Module structure not found in tree.json for container '", container, "'">>)
        ELSE IF Get(module_obj[1], key) = <<>>
        THEN Fmt(<<"Key '", key, "' not defined in tree.json for container '", container, "'">>)
        ELSE <<>>

\* handle_set_command (api.rs 150-193)
handle_set_command(tj, f, container, module, key, value) ==
    IF ~Exists(tj) THEN ApiErr(IoError)
    ELSE IF from_str(tj) = <<>> THEN ApiErr(SerdeError)
    ELSE IF set_validation(from_str(tj)[1], container, key) # <<>>
    THEN ApiErr(set_validation(from_str(tj)[1], container, key))
    ELSE IF ~Exists(f) THEN ApiErr(FileMissing(container))
    ELSE IF from_str(f) = <<>> THEN ApiErr(SerdeError)
    ELSE LET container_data == from_str(f)[1]
             module_obj == Get(container_data, module)
             confirmation == Fmt(<<"SET ", key, " ", value>>)
         IN  IF container_data.t # "obj"
             THEN ApiWrote(to_string_pretty(container_data), confirmation)
             ELSE IF module_obj = <<>> \/ module_obj[1].t # "obj"
             THEN ApiErr(Fmt(<<"Module '", module, "' not found in container '", container, "'">>))
             ELSE ApiWrote(to_string_pretty(
                              JObj(Insert(container_data.c, module,
                                          JObj(Insert(module_obj[1].c, key, JStr(value)))))),
                           confirmation)

\* handle_get_command (api.rs 195-217)
handle_get_command(f, container, module, key) ==
    IF ~Exists(f) THEN ApiErr(FileMissing(container))
    ELSE IF from_str(f) = <<>> THEN ApiErr(SerdeError)
    ELSE LET container_data == from_str(f)[1]
             module_obj == Get(container_data, module)
         IN  IF container_data.t # "obj" THEN ApiErr(<<"Invalid container file format">>)
             ELSE IF module_obj = <<>> \/ module_obj[1].t # "obj"
             THEN ApiErr(Fmt(<<"Module '", module, "' not found in container '", container, "'">>))
             ELSE IF Get(module_obj[1], key) = <<>>
             THEN ApiErr(Fmt(<<"Key '", key, "' not found in module '", module,
                               "' of container '", container, "'">>))
             ELSE LET value == Get(module_obj[1], key)[1]
                  IN  ApiOk(Fmt(<<IF AsStr(value) = <<>> THEN "" ELSE AsStr(value)[1]>>))

\* handle_containers_command (api.rs 219-229)
handle_containers_command(tj) ==
    IF ~Exists(tj) THEN ApiErr(IoError)
    ELSE IF from_str(tj) = <<>> THEN ApiErr(SerdeError)
    ELSE IF from_str(tj)[1].t # "obj" THEN ApiErr(<<"Invalid tree.json format">>)
    ELSE ApiOk(Join(Keys(from_str(tj)[1])))

\* handle_modules_command (api.rs 231-246)
handle_modules_command(f, container) ==
    IF ~Exists(f) THEN ApiErr(FileMissing(container))
    ELSE IF from_str(f) = <<>> THEN ApiErr(SerdeError)
    ELSE IF from_str(f)[1].t # "obj" THEN ApiErr(<<"Invalid container file format">>)
    ELSE ApiOk(Join(Keys(from_str(f)[1])))

\* handle_keys_command (api.rs 248-267)
handle_keys_command(f, container, module) ==
    IF ~Exists(f) THEN ApiErr(FileMissing(container))
    ELSE IF from_str(f) = <<>> THEN ApiErr(SerdeError)
    ELSE LET container_data == from_str(f)[1]
             module_obj == Get(container_data, module)
         IN  IF container_data.t # "obj" THEN ApiErr(<<"Invalid container file format">>)
             ELSE IF module_obj = <<>> \/ module_obj[1].t # "obj"
             THEN ApiErr(Fmt(<<"Module '", module, "' not found in container '", container, "'">>))
             ELSE ApiOk(Join(Keys(module_obj[1])))

\* str::to_uppercase on the tokens the model sends
to_uppercase(s) ==
    CASE s = "init" -> "INIT"
      [] s = "get" -> "GET"
      [] s = "list" -> "LIST"
      [] s = "List" -> "LIST"
      [] s = "keys" -> "KEYS"
      [] OTHER -> s

\* what process_request did: the response, the files, the handler it awaited
Answer(ret, fs, handler) == [ret |-> ret, files |-> fs, handler |-> handler]

\* match handler(..).await { Ok(msg) => msg, Err(e) => format!("Error: {}", e) }
Served(handler, container, r, fs) ==
    Answer(IF r.ok THEN r.msg ELSE <<"Error: ">> \o r.msg,
           IF r.write THEN [fs EXCEPT ![container] = r.data] ELSE fs,
           handler)

\* variant: KEYS without a module falls back to the module list
match_keys_fallback(parts, fs) ==
    IF Len(parts) >= 3
    THEN Served("handle_keys_command", parts[2],
                handle_keys_command(fs[parts[2]], parts[2], parts[3]), fs)
    ELSE IF Len(parts) = 2
    THEN Served("handle_modules_command", parts[2],
                handle_modules_command(fs[parts[2]], parts[2]), fs)
    ELSE Answer(<<"Error: ", "KEYS", " requires ", "container and module">>, fs, "none")

\* the "KEYS" arm of the match (api.rs 109-120)
match_keys(parts, fs) ==
    IF Len(parts) >= 3
    THEN Served("handle_keys_command", parts[2],
                handle_keys_command(fs[parts[2]], parts[2], parts[3]), fs)
    ELSE Answer(<<"Error: ", "KEYS", " requires ", "container and module">>, fs, "none")

\* process_request (api.rs 42-123); parts are the tokens of split_whitespace
process_request(parts, tj, fs) ==
    IF Len(parts) = 0 THEN Answer(<<"Error: Empty command">>, fs, "none")
    ELSE LET command == to_uppercase(parts[1])
         IN  CASE command = "INIT" ->
                    IF Len(parts) >= 3
                    THEN Served("handle_init_command", parts[2],
                                handle_init_command(tj, parts[2], parts[3]), fs)
                    ELSE Answer(<<"Error: ", "INIT", " requires ", "container and value">>,
                                fs, "none")
               [] command = "SET" ->
                    IF Len(parts) >= 5
                    THEN Served("handle_set_command", parts[2],
                                handle_set_command(tj, fs[parts[2]], parts[2], parts[3],
                                                   parts[4], parts[5]), fs)
                    ELSE Answer(<<"Error: ", "SET", " requires ",
                                  "container, module, key, and value">>, fs, "none")
               [] command = "GET" ->
                    IF Len(parts) >= 4
                    THEN Served("handle_get_command", parts[2],
                                handle_get_command(fs[parts[2]], parts[2], parts[3], parts[4]),
                                fs)
                    ELSE Answer(<<"Error: ", "GET", " requires ",
                                  "container, module, and key">>, fs, "none")
               [] command = "CONTAINERS" ->
                    Served("handle_containers_command", "", handle_containers_command(tj), fs)
               [] command = "MODULES" ->
                    IF Len(parts) >= 2
                    THEN Served("handle_modules_command", parts[2],
                                handle_modules_command(fs[parts[2]], parts[2]), fs)
                    ELSE Answer(<<"Error: ", "MODULES", " requires ", "container">>,
                                fs, "none")
               [] command = "KEYS" -> match_keys(parts, fs)
               [] OTHER -> Answer(Fmt(<<"Unknown command: ", command>>), fs, "none")

(***************************************************************************)
(* SpecApi: requests served one after another by process_request, after    *)
(* the start-up of main (tree.json exists, create_containers has run).     *)
(***************************************************************************)
ApiTemplate == JObj(<<Entry("module", JObj(<<Entry("email", JStr(""))>>))>>)

ApiSchema == JObj(<<Entry("users", ApiTemplate)>>)

ApiKeys == {"email", "age"}

ApiValues == {"x"}

Requests ==
    {<<>>, <<"INIT">>, <<"SET">>, <<"GET">>, <<"MODULES">>, <<"KEYS">>, <<"LIST">>,
     <<"CONTAINERS">>, <<"DROP", "users">>, <<"init", "users", "alice">>,
     <<"get", "users">>, <<"keys", "users">>, <<"list", "users">>,
     <<"List", "users", "alice">>}
    \cup {<<cmd, c>> : cmd \in {"INIT", "SET", "GET", "MODULES", "KEYS", "LIST"}, c \in Names}
    \cup {<<cmd, c, m>> : cmd \in {"INIT", "SET", "GET", "KEYS", "LIST"},
                          c \in Names, m \in Values}
    \cup {<<cmd, c, m, k>> : cmd \in {"SET", "GET"}, c \in Names, m \in Values, k \in ApiKeys}
    \cup {<<"SET", c, m, k, v>> : c \in Names, m \in Values, k \in ApiKeys, v \in ApiValues}

InitApi ==
    /\ tree_json \in {to_string_pretty(ApiSchema), to_string_pretty(SchemaUsers),
                      to_string_pretty(JArr(<<>>))}
    /\ files = create_containers(tree_json, [n \in Names |-> Absent], 1).files
    /\ boot = "serving"
    /\ created = [n \in Names |-> <<>>]
    /\ fresh = [n \in Names |-> FALSE]
    /\ container_locks = NoLocks
    /\ mutex = [l \in 1..Cardinality(Names) |-> 0]
    /\ IdleProcs
    /\ NoTpl
    /\ NoApi

\* handle_client (api.rs 33-36): one request served
ProcessRequest(parts) ==
    /\ boot = "serving"
    /\ request' = parts
    /\ response' = process_request(parts, tree_json, files).ret
    /\ files' = process_request(parts, tree_json, files).files
    /\ UNCHANGED <<tree_json, boot, created, fresh, container_locks, mutex, procvars, tplvars>>

NextApi == \E parts \in Requests : ProcessRequest(parts)

SpecApi == InitApi /\ [][NextApi]_vars

(***************************************************************************)
(* Helpers of the properties                                               *)
(***************************************************************************)
\* the records of a container file (none when it holds no array)
Records(f) ==
    IF from_str(f) # <<>> /\ from_str(f)[1].t = "arr" THEN Elems(from_str(f)[1]) ELSE <<>>

\* the record a template yields for a value
RecordFor(c, v) == replace_placeholder(Get(SchemaBoth, c)[1], v)

\* how often a record occurs in a container file
Occurrences(f, item) == Cardinality({i \in 1..Len(Records(f)) : Records(f)[i] = item})

\* the positions of the records whose "id" field is the string m
WithId(f, m) ==
    {i \in 1..Len(Records(f)) :
        \E j \in 1..Len(Records(f)[i].c) :
            /\ Records(f)[i].t = "obj"
            /\ Records(f)[i].c[j] = Entry("id", JStr(m))}

\* the first record whose "id" field is the string m
FirstWithId(f, m) == Records(f)[CHOOSE i \in WithId(f, m) : \A j \in WithId(f, m) : i <= j]

\* the field names of a record
FieldNames(rec) == {rec.c[i].k : i \in 1..Len(rec.c)}

\* the elements of a sequence
Range(seq) == {seq[i] : i \in 1..Len(seq)}

\* the container names the schema document declares
SchemaKeys(tj) ==
    IF from_str(tj) # <<>> /\ from_str(tj)[1].t = "obj" THEN Range(Keys(from_str(tj)[1])) ELSE {}

AllDone == \A p \in Procs : pc[p] = "done"

(***************************************************************************)
(* C1: N >= 2 concurrent handle_init(C, v_i) calls each append exactly one *)
(* record: once all have returned, the array of tree/C.json is N longer    *)
(* than before and holds one more record per v_i.                          *)
(***************************************************************************)
C1_ConcurrentInitsAllAppend ==
    \A c \in Names :
        (\A p \in Procs : pc[p] = "done" /\ call[p].op = "init" /\ call[p].c = c)
        => /\ Len(Records(files[c])) = Len(Records(ServingFiles[c])) + NumProcs
           /\ \A v \in Values :
                 Occurrences(files[c], RecordFor(c, v))
                    = Occurrences(ServingFiles[c], RecordFor(c, v))
                      + Cardinality({p \in Procs : call[p].v = v})

(***************************************************************************)
(* C2: per container, at most one operation is between its read and its    *)
(* write of the container file, and an operation at that point holds the   *)
(* guard of the container's lock.                                          *)
(***************************************************************************)
InWrite(p) == pc[p] = "writing" \/ pc[p] = "truncated"

C2_MutualExclusion ==
    /\ \A p \in Procs, q \in Procs :
          (p # q /\ InWrite(p) /\ InWrite(q)) => call[p].c # call[q].c
    /\ \A p \in Procs : InWrite(p) => (arc[p] # 0 /\ mutex[arc[p]] = p)

(***************************************************************************)
(* C3: concurrent handle_init and handle_set calls are linearizable: once  *)
(* all have returned their confirmation, the files are what running the    *)
(* same calls one after another in some order leaves.                      *)
(***************************************************************************)
Orders == {o \in [1..NumProcs -> Procs] : \A i \in 1..NumProcs, j \in 1..NumProcs : i # j => o[i] # o[j]}

RECURSIVE RunInOrder(_, _, _)
\* the files after the calls order[i], order[i+1], ... run one after another on fs
RunInOrder(fs, order, i) ==
    IF i > NumProcs THEN fs
    ELSE RunInOrder(RunAlone(call[order[i]], tree_json, fs), order, i + 1)

C3_Linearizable ==
    (\A p \in Procs : /\ pc[p] = "done"
                      /\ (call[p].op = "init" \/ call[p].op = "set")
                      /\ (Head(resp[p]) = "INIT " \/ Head(resp[p]) = "SET "))
    => \E order \in Orders :
          files = RunInOrder([n \in Names |-> ServingFiles[n]], order, 1)

(***************************************************************************)
(* C4: a successful handle_set(C, m, k, v) on a module m created by a      *)
(* successful handle_init(C, m), followed at once by handle_get(C, m, k),  *)
(* returns exactly v.                                                      *)
(***************************************************************************)
C4_SetThenGet ==
    [][\A c \in Names, m \in Values, k \in SetKeys, v \in SetValues :
          (/\ HandleSet(c, m, k, v)
           /\ set_thread(files[c], m, k, v).ok
           /\ m \in Range(created[c]))
          => get_thread(files'[c], m, k).ret = <<v>>]_vars

(***************************************************************************)
(* C5: container discovery over a schema document that is a JSON object,   *)
(* the empty object included, returns Ok and leaves a container file for   *)
(* every key of the schema.                                                *)
(***************************************************************************)
C5_DiscoverySucceeds ==
    (/\ boot \in {"serving", "failed", "panicked"}
     /\ from_str(tree_json) # <<>>
     /\ from_str(tree_json)[1].t = "obj")
    => /\ boot = "serving"
       /\ \A n \in SchemaKeys(tree_json) : Exists(files[n])

(***************************************************************************)
(* C6: create_containers never changes a container file that exists, and   *)
(* running it again on what it left changes nothing.                       *)
(***************************************************************************)
C6_IdempotentDiscovery ==
    [][boot = "tree_ready"
       => /\ \A n \in Names : Exists(files[n]) => files'[n] = files[n]
          /\ \A size \in 1..MaxCpus :
                create_containers(tree_json, files', size).files = files']_vars

C6_Witness ==
    /\ boot = "serving"
    /\ container_locks = NoLocks
    /\ Len(Records(files["users"])) = MaxRecords
    /\ Len(Records(files["logs"])) = 0
    /\ Exists(files["logs"])

(***************************************************************************)
(* C7: after successful handle_init and handle_set calls on a container    *)
(* that started empty, handle_list_modules returns the values passed to    *)
(* the handle_init calls, in call order, joined by ", ".  Stated for the   *)
(* containers whose template carries the identifier field (the records of  *)
(* a template without one are named by no listing).                        *)
(***************************************************************************)
C7_ListingStability ==
    \A c \in SchemaKeys(tree_json) :
        (boot = "serving" /\ fresh[c] /\ Get(Get(from_str(tree_json)[1], c)[1], "id") # <<>>)
        => list_modules_thread(files[c]).ret = Join(created[c])

(***************************************************************************)
(* C8: for a container holding a record with identifier m,                 *)
(* handle_list_keys returns the field names of the first such record       *)
(* except "id", and never "id".                                            *)
(***************************************************************************)
C8_ListKeys ==
    \A c \in Names, m \in Values :
        (boot = "serving" /\ WithId(files[c], m) # {})
        => LET r == list_keys_thread(files[c], m)
               names == FieldNames(FirstWithId(files[c], m)) \ {"id"}
           IN  /\ r.ok
               /\ "id" \notin Range(r.ret)
               /\ Range(r.ret) \ {", "} = names
               /\ Len(r.ret) = IF names = {} THEN 0 ELSE 2 * Cardinality(names) - 1

C8_Witness ==
    /\ boot = "serving"
    /\ container_locks["users"] # 0
    /\ Len(Records(files["users"])) = 2
    /\ WithId(files["users"], "bob") = {1, 2}
    /\ list_keys_thread(files["users"], "bob").ret = <<"email">>

(***************************************************************************)
(* C9: replace_placeholder sets every field named "id" to the string v,    *)
(* leaves every other key and scalar as in the template, returns a         *)
(* template without "id" unchanged, and leaves the template itself alone.  *)
(***************************************************************************)
RECURSIVE IdsAre(_, _)
\* every field named "id" of val holds the string v
IdsAre(val, v) ==
    \A i \in 1..Len(val.c) :
        IF val.t = "obj" /\ val.c[i].k = "id"
        THEN val.c[i].v = JStr(v)
        ELSE IdsAre(val.c[i].v, v)

RECURSIVE SameElsewhere(_, _)
\* a and b have the same kinds, keys and scalars outside the values of "id" fields
SameElsewhere(a, b) ==
    /\ a.t = b.t
    /\ a.s = b.s
    /\ Len(a.c) = Len(b.c)
    /\ \A i \in 1..Len(a.c) :
          /\ a.c[i].k = b.c[i].k
          /\ \/ (a.t = "obj" /\ a.c[i].k = "id")
             \/ SameElsewhere(a.c[i].v, b.c[i].v)

RECURSIVE HasId(_)
\* some object of val has a field named "id"
HasId(val) ==
    \E i \in 1..Len(val.c) : (val.t = "obj" /\ val.c[i].k = "id") \/ HasId(val.c[i].v)

C9_TemplateSubstitution ==
    [][tpl_pc' = "done"
       => /\ IdsAre(tpl_out', tpl_arg)
          /\ SameElsewhere(tpl_in, tpl_out')
          /\ (~HasId(tpl_in) => tpl_out' = tpl_in)
          /\ tpl_in' = tpl_in]_vars

C9_Witness ==
    /\ tpl_pc = "done"
    /\ tpl_arg = "alice"
    /\ tpl_in = JObj(<<Entry("a", JObj(<<Entry("id", JStr("x"))>>)), Entry("id", JStr("x"))>>)
    /\ tpl_out = JObj(<<Entry("a", JObj(<<Entry("id", JStr("alice"))>>)),
                        Entry("id", JStr("alice"))>>)

(***************************************************************************)
(* C10: handle_init on a container name that is no key of the schema       *)
(* document returns the container-not-found error and creates or changes   *)
(* no container file.                                                      *)
(***************************************************************************)
C10_InitUnknownContainer ==
    [][\A c \in Names, v \in Values :
          (HandleInit(c, v) /\ c \notin SchemaKeys(tree_json))
          => /\ files' = files
             /\ created' = created
             /\ init_thread(tree_json, files[c], c, v)
                   = Returned(<<"ERROR: Container not found in tree.json">>, FALSE)]_vars

C10_Witness ==
    /\ boot = "serving"
    /\ SchemaKeys(tree_json) = {"users"}
    /\ container_locks["logs"] # 0
    /\ ~Exists(files["logs"])
    /\ init_thread(tree_json, files["logs"], "logs", "alice").ret
          = <<"ERROR: Container not found in tree.json">>

(***************************************************************************)
(* C11: handle_set, handle_get, handle_list_modules and handle_list_keys   *)
(* on a container whose file does not exist each return the                *)
(* container-does-not-exist error, and the call creates no file and        *)
(* changes no file.                                                        *)
(***************************************************************************)
ContainerNotFound == Returned(<<"ERROR: Container does not exist">>, FALSE)

C11_MissingContainerFile ==
    [][\A c \in Names :
          (boot = "serving" /\ ~Exists(files[c]))
          => /\ \A m \in Values, k \in SetKeys, v \in SetValues :
                   HandleSet(c, m, k, v)
                   => (files' = files /\ set_thread(files[c], m, k, v) = ContainerNotFound)
             /\ \A m \in Values, k \in SetKeys :
                   HandleGet(c, m, k)
                   => (files' = files /\ get_thread(files[c], m, k) = ContainerNotFound)
             /\ HandleListModules(c)
                   => (files' = files /\ list_modules_thread(files[c]) = ContainerNotFound)
             /\ \A m \in Values :
                   HandleListKeys(c, m)
                   => (files' = files /\ list_keys_thread(files[c], m) = ContainerNotFound)]_vars

C11_Witness ==
    /\ boot = "serving"
    /\ tree_json = to_string_pretty(JArr(<<>>))
    /\ ~Exists(files["users"])
    /\ container_locks["users"] # 0
    /\ list_modules_thread(files["users"]) = ContainerNotFound

(***************************************************************************)
(* C12: when the container file holds an array in which no record has      *)
(* identifier m, handle_set, handle_get and handle_list_keys return the    *)
(* module-not-found error and write nothing; handle_get returns the        *)
(* key-not-found error only when a record with identifier m exists and     *)
(* lacks the key.                                                          *)
(***************************************************************************)
ModuleNotFound == Returned(<<"ERROR: Module not found">>, FALSE)

KeyNotFound == Returned(<<"ERROR: Key not found">>, FALSE)

C12_ModuleAbsent ==
    \A c \in Names, m \in Values, k \in SetKeys :
        (boot = "serving" /\ from_str(files[c]) # <<>> /\ from_str(files[c])[1].t = "arr")
        => /\ WithId(files[c], m) = {}
              => /\ \A v \in SetValues : set_thread(files[c], m, k, v) = ModuleNotFound
                 /\ get_thread(files[c], m, k) = ModuleNotFound
                 /\ list_keys_thread(files[c], m) = ModuleNotFound
           /\ get_thread(files[c], m, k) = KeyNotFound
              => /\ WithId(files[c], m) # {}
                 /\ k \notin FieldNames(FirstWithId(files[c], m))

(***************************************************************************)
(* C13: with schema {"users": {"id": "", "email": ""}} and users.json      *)
(* holding the empty array, handle_init(users, alice) returns              *)
(* "INIT alice in Container 'users'" and leaves [{id: alice, email: ""}];  *)
(* the calls that follow it, handle_set(users, alice, email, a@x.com),     *)
(* handle_get(users, alice, email), handle_list_modules(users) and         *)
(* handle_list_keys(users, alice), return "SET email a@x.com", "a@x.com",  *)
(* "alice" and "email" and leave [{id: alice, email: a@x.com}].            *)
(***************************************************************************)
ScenarioRecord(email) == JObj(<<Entry("email", JStr(email)), Entry("id", JStr("alice"))>>)

C13_ConcreteScenario ==
    [][(/\ boot = "serving"
        /\ tree_json = to_string_pretty(SchemaUsers)
        /\ files["users"] = to_string_pretty(JArr(<<>>))
        /\ HandleInit("users", "alice"))
       => LET after_init == files'["users"]
              set == set_thread(after_init, "alice", "email", "a@x.com")
              after_set == IF set.write THEN set.data ELSE after_init
              get == get_thread(after_set, "alice", "email")
              modules == list_modules_thread(after_set)
              keys == list_keys_thread(after_set, "alice")
          IN  /\ init_thread(tree_json, files["users"], "users", "alice").ret
                    = <<"INIT ", "alice", " in Container '", "users", "'">>
              /\ after_init = to_string_pretty(JArr(<<ScenarioRecord("")>>))
              /\ set.ret = <<"SET ", "email", " ", "a@x.com">>
              /\ after_set = to_string_pretty(JArr(<<ScenarioRecord("a@x.com")>>))
              /\ get = Returned(<<"a@x.com">>, TRUE)
              /\ modules = Returned(<<"alice">>, TRUE)
              /\ keys = Returned(<<"email">>, TRUE)
              /\ files'["logs"] = files["logs"]]_vars

C13_Witness ==
    /\ boot = "serving"
    /\ tree_json = to_string_pretty(SchemaUsers)
    /\ fresh["users"]
    /\ created["users"] = <<"alice">>
    /\ files["users"] = to_string_pretty(JArr(<<ScenarioRecord("")>>))

(***************************************************************************)
(* C14: at every state, the states in the middle of a file write of        *)
(* handle_init or handle_set included, each container file holds the       *)
(* complete text of a value: an operation reading it never finds it empty  *)
(* or partly written.                                                      *)
(***************************************************************************)
C14_AllOrNothingWrites ==
    \A p \in Procs :
        pc[p] = "spawned"
        => /\ files[call[p].c] # Truncated
           /\ from_str(files[call[p].c]) # <<>>

(***************************************************************************)
(* C15: a request for INIT, SET, GET, MODULES or KEYS with fewer arguments *)
(* than the command requires is answered "Error: <command> requires        *)
(* <arguments>", and process_request awaits no handler and changes no      *)
(* file for it.                                                            *)
(***************************************************************************)
ArgsRequired(command) ==
    CASE command = "INIT" -> 2
      [] command = "SET" -> 4
      [] command = "GET" -> 3
      [] command = "MODULES" -> 1
      [] command = "KEYS" -> 2
      [] OTHER -> 0

C15_ArityErrors ==
    [][\A parts \in Requests :
          (/\ ProcessRequest(parts)
           /\ Len(parts) > 0
           /\ Len(parts) - 1 < ArgsRequired(to_uppercase(parts[1])))
          => /\ files' = files
             /\ process_request(parts, tree_json, files).handler = "none"
             /\ Len(response') = 4
             /\ response'[1] = "Error: "
             /\ response'[2] = to_uppercase(parts[1])
             /\ response'[3] = " requires "]_vars

C15_Witness ==
    /\ request = <<"get", "users">>
    /\ response = <<"Error: ", "GET", " requires ", "container, module, and key">>
    /\ handle_modules_command(files["users"], "users").msg = <<"alice">>

(***************************************************************************)
(* C16: a request whose first token is LIST, in any letter case, is        *)
(* answered with the module list of the container when it has one          *)
(* argument and with the key list of the module when it has two, never     *)
(* with the unknown-command response.                                      *)
(***************************************************************************)
C16_ListDispatch ==
    (Len(request) >= 2 /\ to_uppercase(request[1]) = "LIST")
    => /\ response # <<"Unknown command: ", "LIST">>
       /\ Len(request) = 2
          => response = Served("handle_modules_command", request[2],
                               handle_modules_command(files[request[2]], request[2]),
                               files).ret
       /\ Len(request) = 3
          => response = Served("handle_keys_command", request[2],
                               handle_keys_command(files[request[2]], request[2], request[3]),
                               files).ret

(***************************************************************************)
(* C20: in the key-substitution variant a successful INIT of v2 keeps the  *)
(* modules the container held before: each earlier module v1 # v2 is still *)
(* in the container file and GET returns its values as before.             *)
(***************************************************************************)
ApiModules(f) ==
    IF from_str(f) # <<>> /\ from_str(f)[1].t = "obj" THEN Range(Keys(from_str(f)[1])) ELSE {}

C20_InitKeepsModules ==
    [][\A c \in Names, v2 \in Values :
          (/\ ProcessRequest(<<"INIT", c, v2>>)
           /\ response' = <<"INIT ", v2, " in Container '", c, "'">>)
          => \A v1 \in ApiModules(files[c]) \ {v2} :
                /\ v1 \in ApiModules(files'[c])
                /\ \A k \in ApiKeys :
                      handle_get_command(files'[c], c, v1, k)
                         = handle_get_command(files[c], c, v1, k)]_vars

(***************************************************************************)
(* C17: a successful handle_set(C, m, k, v) sets field k of one record     *)
(* with identifier m to v and changes nothing else: the number and order   *)
(* of the records, the other records, the other fields of that record,     *)
(* the files of the other containers and tree.json stay as they were.      *)
(* (A call that leaves every file as it was has changed nothing.)          *)
(***************************************************************************)
C17_SetFrame ==
    [][/\ boot = "serving" /\ boot' = "serving" => tree_json' = tree_json
       /\ files' # files
          => \A c \in Names, m \in Values, k \in SetKeys, v \in SetValues :
                (set_thread(files[c], m, k, v).ok /\ HandleSet(c, m, k, v))
                => LET old == Records(files[c])
                       new == Records(files'[c])
                   IN  /\ \A n \in Names \ {c} : files'[n] = files[n]
                       /\ Len(new) = Len(old)
                       /\ \E i \in 1..Len(old) :
                             /\ Get(old[i], "id") = <<JStr(m)>>
                             /\ \A j \in 1..Len(old) : j # i => new[j] = old[j]
                             /\ Get(new[i], k) = <<JStr(v)>>
                             /\ FieldNames(new[i]) = FieldNames(old[i]) \cup {k}
                             /\ \A x \in FieldNames(old[i]) \ {k} :
                                   Get(new[i], x) = Get(old[i], x)]_vars

C17_Witness ==
    /\ boot = "serving"
    /\ created["users"] = <<"alice", "alice">>
    /\ Records(files["users"])
          = <<JObj(<<Entry("email", JStr("bob")), Entry("id", JStr("alice"))>>),
              JObj(<<Entry("email", JStr("")), Entry("id", JStr("alice"))>>)>>

(***************************************************************************)
(* C18: after handle_init and handle_set calls on a container that started *)
(* empty, every record of its array has the field names of the container's *)
(* template and its "id" field holds the value of the handle_init that     *)
(* created it.  Stated for the templates that carry the identifier field.  *)
(***************************************************************************)
C18_RecordShape ==
    \A c \in SchemaKeys(tree_json) :
        (boot = "serving" /\ fresh[c] /\ Get(Get(from_str(tree_json)[1], c)[1], "id") # <<>>)
        => /\ Len(Records(files[c])) = Len(created[c])
           /\ \A i \in 1..Len(Records(files[c])) :
                 /\ FieldNames(Records(files[c])[i])
                       = FieldNames(Get(from_str(tree_json)[1], c)[1])
                 /\ Get(Records(files[c])[i], "id") = <<JStr(created[c][i])>>

(***************************************************************************)
(* C19: when several records share the identifier m, handle_get and        *)
(* handle_list_keys answer from the first of them in array order only:     *)
(* handle_get(C, m, k) returns the key-not-found error when that record    *)
(* lacks k, whatever later records hold.                                   *)
(***************************************************************************)
C19_FirstMatchWins ==
    \A c \in Names, m \in Values, k \in SetKeys \cup {"age"} :
        (boot = "serving" /\ WithId(files[c], m) # {})
        => /\ k \notin FieldNames(FirstWithId(files[c], m))
                 => get_thread(files[c], m, k) = KeyNotFound
           /\ k \in FieldNames(FirstWithId(files[c], m))
                 => get_thread(files[c], m, k).ret
                       = Fmt(<<Get(FirstWithId(files[c], m), k)[1].s>>)
           /\ Range(list_keys_thread(files[c], m).ret) \ {", "}
                 = FieldNames(FirstWithId(files[c], m)) \ {"id"}

(***************************************************************************)
(* C21: where tree.json declares the keys of container C (an object        *)
(* "module" under C), handle_set_command(C, m, k, v) with a key k that is  *)
(* not among them returns the error "Key 'k' not defined in tree.json for  *)
(* container 'C'" and leaves every container file as it was; with a        *)
(* declared key and a module m the container file holds, it stores v (GET  *)
(* returns v afterwards) and returns "SET k v".                            *)
(***************************************************************************)
\* the keys tree.json declares for a container: those of its "module" object
DeclaresKeys(tj, c) ==
    /\ from_str(tj) # <<>>
    /\ from_str(tj)[1].t = "obj"
    /\ Get(from_str(tj)[1], c) # <<>>
    /\ Get(from_str(tj)[1], c)[1].t = "obj"
    /\ Get(Get(from_str(tj)[1], c)[1], "module") # <<>>
    /\ Get(Get(from_str(tj)[1], c)[1], "module")[1].t = "obj"

DeclaredKeys(tj, c) ==
    IF DeclaresKeys(tj, c)
    THEN Range(Keys(Get(Get(from_str(tj)[1], c)[1], "module")[1]))
    ELSE {}

KeyNotDeclared(k, c) ==
    Fmt(<<"Key '", k, "' not defined in tree.json for container '", c, "'">>)

C21_KeyValidation ==
    [][\A c \in Names, m \in Values, k \in ApiKeys, v \in ApiValues :
          ProcessRequest(<<"SET", c, m, k, v>>)
          => LET r == handle_set_command(tree_json, files[c], c, m, k, v)
             IN  /\ (DeclaresKeys(tree_json, c) /\ k \notin DeclaredKeys(tree_json, c))
                    => /\ r = ApiErr(KeyNotDeclared(k, c))
                       /\ response' = <<"Error: ">> \o KeyNotDeclared(k, c)
                       /\ files' = files
                 /\ (k \in DeclaredKeys(tree_json, c) /\ m \in ApiModules(files[c]))
                    => /\ r.ok
                       /\ response' = <<"SET ", k, " ", v>>
                       /\ handle_get_command(files'[c], c, m, k) = ApiOk(<<v>>)
                       /\ \A n \in Names \ {c} : files'[n] = files[n]]_vars

\* an undeclared key was refused for a module that holds a value stored before
C21_Witness ==
    /\ request = <<"SET", "users", "alice", "age", "x">>
    /\ response = <<"Error: ">> \o KeyNotDeclared("age", "users")
    /\ handle_get_command(files["users"], "users", "alice", "email") = ApiOk(<<"x">>)
    /\ handle_get_command(files["users"], "users", "alice", "age").ok = FALSE

(***************************************************************************)
(* C22: every failure of handle_init, handle_set, handle_get,              *)
(* handle_list_modules and handle_list_keys returns a string that starts   *)
(* with "ERROR:", and no successful call returns such a string, whatever   *)
(* strings were stored through Init and Set.                               *)
(***************************************************************************)
\* the strings of tree.rs that start with "ERROR:"
ErrorTexts ==
    {"ERROR: Failed to read tree.json", "ERROR: Failed to parse tree.json",
     "ERROR: Container not found in tree.json", "ERROR: Container does not exist",
     "ERROR: Failed to read container file", "ERROR: Failed to parse container file",
     "ERROR: Failed to format data", "ERROR: Failed to write container file",
     "ERROR: Module not found", "ERROR: Key not found",
     "ERROR: Invalid container format", "ERROR: Thread panic"}

StartsWithError(ret) == ret # <<>> /\ ret[1] \in ErrorTexts

Distinguishable(r) == r.ok <=> ~StartsWithError(r.ret)

\* the value strings a caller may pass to handle_set
StoredValues == SetValues \cup {"ERROR: Key not found"}

C22_ErrorsDistinguishable ==
    boot = "serving"
    => \A c \in Names :
          /\ Distinguishable(list_modules_thread(files[c]))
          /\ \A v \in Values : Distinguishable(init_thread(tree_json, files[c], c, v))
          /\ \A m \in Values :
                /\ Distinguishable(list_keys_thread(files[c], m))
                /\ \A k \in SetKeys :
                      /\ Distinguishable(get_thread(files[c], m, k))
                      /\ \A v \in StoredValues :
                            LET set == set_thread(files[c], m, k, v)
                            IN  /\ Distinguishable(set)
                                /\ set.ok => /\ Distinguishable(get_thread(set.data, m, k))
                                             /\ Distinguishable(list_modules_thread(set.data))

(***************************************************************************)
(* C23: under any interleaving of the handlers' get_container_lock calls,  *)
(* the calls with one container name return one lock object (the entry of  *)
(* the registry), the calls with different names return different objects, *)
(* and an entry of the registry, once inserted, is never removed nor       *)
(* replaced.                                                               *)
(***************************************************************************)
C23_LockRegistryIdentity ==
    [][/\ \A n \in Names :
             container_locks[n] # 0 => container_locks'[n] = container_locks[n]
       /\ \A n1 \in Names, n2 \in Names :
             (n1 # n2 /\ container_locks'[n1] # 0) => container_locks'[n1] # container_locks'[n2]
       /\ \A p \in Procs :
             /\ (pc[p] = "idle" /\ pc'[p] = "spawned")
                => (arc'[p] # 0 /\ arc'[p] = container_locks'[call'[p].c])
             /\ arc'[p] # 0 => arc'[p] = container_locks'[call'[p].c]
       /\ \A p \in Procs, q \in Procs :
             (arc'[p] # 0 /\ arc'[q] # 0)
             => (arc'[p] = arc'[q] <=> call'[p].c = call'[q].c)]_vars

\* two handlers hold the lock of one container, inserted after that of another
C23_Witness ==
    /\ container_locks["users"] # 0
    /\ container_locks["logs"] # 0
    /\ \E p \in Procs, q \in Procs :
          /\ p # q
          /\ call[p].c = "logs" /\ call[q].c = "logs"
          /\ arc[p] # 0 /\ arc[p] = arc[q]

(***************************************************************************)
(* C24: under fair scheduling every started handle_init, handle_set,       *)
(* handle_get, handle_list_modules or handle_list_keys call eventually     *)
(* returns (from some point on no call is in flight, and a call that has   *)
(* returned stays returned); once returned it holds no container lock and  *)
(* no handle of one; and a call whose container no other call in flight    *)
(* works on can always take its next step, whatever the calls on the other *)
(* containers are doing.                                                   *)
(***************************************************************************)
InFlight(p) == pc[p] # "idle" /\ pc[p] # "done"

AloneOnContainer(p) ==
    \A q \in Procs \ {p} : InFlight(q) => call[q].c # call[p].c

C24_Progress ==
    /\ <>[](\A p \in Procs : ~InFlight(p))
    /\ [][\A p \in Procs : pc[p] = "done" => pc'[p] = "done"]_vars
    /\ [](\A p \in Procs :
             pc[p] = "done"
             => /\ arc[p] = 0
                /\ \A l \in DOMAIN mutex : mutex[l] # p)
    /\ [](\A p \in Procs :
             AloneOnContainer(p)
             => /\ pc[p] = "spawned" => ENABLED ThreadRead(p)
                /\ pc[p] = "writing" => ENABLED ThreadTruncate(p)
                /\ pc[p] = "truncated" => ENABLED ThreadWrite(p))

\* a call has returned while a call on another container is inside its write
C24_Witness ==
    \E p \in Procs, q \in Procs :
        /\ pc[p] = "done" /\ call[p].c = "users" /\ call[p].op = "set"
        /\ pc[q] = "truncated" /\ call[q].c = "logs"

(***************************************************************************)
(* C25: whenever handle_init(C, v) returns "INIT v in Container 'C'", the  *)
(* container file afterwards holds an array whose last element is the      *)
(* record instantiated for v and whose elements before it are the records  *)
(* the file held before the call (none when it held no array).             *)
(***************************************************************************)
C25_InitSuccessAppends ==
    [][\A c \in Names, v \in Values :
          (/\ HandleInit(c, v)
           /\ init_thread(tree_json, files[c], c, v).ret
                 = <<"INIT ", v, " in Container '", c, "'">>)
          => LET old == Records(files[c])
                 new == Records(files'[c])
             IN  /\ from_str(files'[c]) # <<>>
                 /\ from_str(files'[c])[1].t = "arr"
                 /\ Len(new) = Len(old) + 1
                 /\ new[Len(new)] = replace_placeholder(Get(from_str(tree_json)[1], c)[1], v)
                 /\ \A i \in 1..Len(old) : new[i] = old[i]]_vars

====
